---- MODULE Spec2Model ----
(***************************************************************************)
(* Research agent: the pipeline of app/research_agent (nodes.py, graph.py, *)
(* state.py, tools.py) and the job layer of app/api/routes.py.  Spec runs   *)
(* the pipeline, JobSpec the jobs around it, ToolSpec the tools on their   *)
(* own.                                                                    *)
(*                                                                         *)
(* A Python str is a sequence of one-character strings; a literal fragment *)
(* of an f-string is one element of that sequence.  None is NoneVal, a     *)
(* missing dict key is Absent.                                             *)
(***************************************************************************)
EXTENDS Integers, Sequences, FiniteSets, TLC

VARIABLES
    executor,   \* what build_research_graph returned: "langgraph" or "minimal"
    state,      \* the ResearchState dict of the run in progress
    pc,         \* the node research_graph.invoke runs next
    executed,   \* the node functions called so far in this invoke, in order
    faults,     \* the faults the collaborators raised so far in this invoke
    llm_calls,  \* the calls made to the language model so far in this invoke
    owner,      \* who called invoke: "direct" or a job id
    result,     \* what invoke returned to a direct caller
    jobs_db,    \* routes.jobs_db: job id -> record
    task,       \* process_research_job: per job, its position and locals
    call        \* the call of a tool made on its own: its arguments and outcome

vars == <<executor, state, pc, executed, faults, llm_calls, owner, result, jobs_db, task, call>>

-----------------------------------------------------------------------------
(* Bounds and program constants *)

MaxProviderResults == 3
MaxJobs == 2
MaxFilterLen == 3
MaxBatchUrls == 3
MaxLongResults == 6

MinQueryLength == 5
MinSnippetLength == 50
ExtractionCap == 5
KeySourcesCap == 5
ChunkCap == 2000
CombinedCap == 15000
SynthesisCap == 3000
SettingsMaxSearchResults == 10
SettingsMaxContentLength == 50000
RequestQueryMaxLength == 500
RequestMaxResultsMin == 1
RequestMaxResultsMax == 20

-----------------------------------------------------------------------------
(* Text *)

NoneVal == <<"<None>">>
Absent == <<"<absent>">>

Truthy(v) == v # NoneVal /\ v # Absent /\ v # <<>>

\* str(v) as an f-string renders it
FStr(v) == IF v = NoneVal THEN <<"N", "o", "n", "e">> ELSE v

Min(a, b) == IF a < b THEN a ELSE b

Range(seq) == {seq[i] : i \in 1..Len(seq)}

\* s[:n]
Slice(s, n) == SubSeq(s, 1, Min(n, Len(s)))

Pad(n) == [i \in 1..n |-> "x"]

Digit(d) == <<"0", "1", "2", "3", "4", "5", "6", "7", "8", "9">>[d + 1]

RECURSIVE IntStr(_)
IntStr(n) == IF n < 10 THEN <<Digit(n)>> ELSE IntStr(n \div 10) \o <<Digit(n % 10)>>

LowerChar(c) ==
    CASE c = "A" -> "a" [] c = "I" -> "i" [] c = "N" -> "n"
      [] c = "Q" -> "q" [] c = "X" -> "x" [] OTHER -> c

Lower(s) == [i \in 1..Len(s) |-> LowerChar(s[i])]

IsSpace(c) == c \in {" ", "\n", "\t"}

\* needle in hay
Contains(hay, needle) ==
    \E i \in 0..(Len(hay) - Len(needle)) :
        \A k \in 1..Len(needle) : hay[i + k] = needle[k]

\* s.split(): the maximal runs of non-whitespace characters
RECURSIVE SplitWords(_, _, _)
SplitWords(s, cur, acc) ==
    IF s = <<>> THEN (IF cur = <<>> THEN acc ELSE Append(acc, cur))
    ELSE IF IsSpace(Head(s))
         THEN SplitWords(Tail(s), <<>>, IF cur = <<>> THEN acc ELSE Append(acc, cur))
         ELSE SplitWords(Tail(s), Append(cur, Head(s)), acc)

Split(s) == SplitWords(s, <<>>, <<>>)

\* s.split(sep): every segment between separators, empty ones included
RECURSIVE SplitOn(_, _, _, _)
SplitOn(s, sep, cur, acc) ==
    IF s = <<>> THEN Append(acc, cur)
    ELSE IF Head(s) = sep
         THEN SplitOn(Tail(s), sep, <<>>, Append(acc, cur))
         ELSE SplitOn(Tail(s), sep, Append(cur, Head(s)), acc)

\* s.strip(ch)
RECURSIVE LStrip(_, _)
LStrip(s, ch) == IF s # <<>> /\ Head(s) = ch THEN LStrip(Tail(s), ch) ELSE s

RECURSIVE RStrip(_, _)
RStrip(s, ch) ==
    IF s # <<>> /\ s[Len(s)] = ch THEN RStrip(SubSeq(s, 1, Len(s) - 1), ch) ELSE s

Strip(s, ch) == RStrip(LStrip(s, ch), ch)

\* sep.join(parts)
RECURSIVE Join(_, _)
Join(parts, sep) ==
    IF parts = <<>> THEN <<>>
    ELSE IF Len(parts) = 1 THEN parts[1]
    ELSE parts[1] \o sep \o Join(Tail(parts), sep)

\* the outcome of a call: a value, or a raised exception with its str()
Ok(v) == [ok |-> TRUE, val |-> v, exc |-> <<>>]
Raise(e) == [ok |-> FALSE, val |-> <<>>, exc |-> e]

-----------------------------------------------------------------------------
(* tools.py: WebSearchTool *)

\* dict.get(key, "") on a provider result: the default only replaces a missing key
GetOr(v, default) == IF v = Absent THEN default ELSE v

\* dict.get(key): a missing key reads as None
Get(v) == IF v = Absent THEN NoneVal ELSE v

\* the dict search() appends for one provider result; href.split('/')[2]
\* raises IndexError when the href has fewer than three segments
NormalizeResult(raw) ==
    LET href == GetOr(raw.href, <<>>)
        segs == SplitOn(href, "/", <<>>, <<>>)
    IN  IF Truthy(Get(raw.href)) /\ Len(segs) < 3
        THEN Raise(<<"list index out of range">>)
        ELSE Ok([title |-> GetOr(raw.title, <<>>),
                 url |-> href,
                 snippet |-> GetOr(raw.body, <<>>),
                 source |-> IF Truthy(Get(raw.href)) THEN segs[3] ELSE <<>>,
                 relevance_score |-> <<>>])

RECURSIVE NormalizeAll(_, _)
NormalizeAll(raws, acc) ==
    IF raws = <<>> THEN Ok(acc)
    ELSE LET r == NormalizeResult(Head(raws))
         IN  IF r.ok THEN NormalizeAll(Tail(raws), Append(acc, r.val)) ELSE r

\* results_limit = max_results or self.max_results (max_results is an int here)
ResultsLimit(max_results) ==
    IF max_results = 0 THEN SettingsMaxSearchResults ELSE max_results

\* search() without its try/except: the provider's exception reaches the caller
WebSearchTool_search_Propagating(query, max_results, provider) ==
    IF ~provider.ok THEN provider ELSE NormalizeAll(provider.val, <<>>)

\* WebSearchTool.search: provider is the outcome of ddgs.text(query, max_results=limit)
WebSearchTool_search(query, max_results, provider) ==
    IF ~provider.ok THEN Ok(<<>>)
    ELSE LET r == NormalizeAll(provider.val, <<>>)
         IN  IF r.ok THEN r ELSE Ok(<<>>)

-----------------------------------------------------------------------------
(* tools.py: ContentExtractor *)

NonePage == [url |-> NoneVal, content |-> NoneVal]

RECURSIVE LStripWs(_)
LStripWs(s) == IF s # <<>> /\ IsSpace(Head(s)) THEN LStripWs(Tail(s)) ELSE s

RECURSIVE RStripWs(_)
RStripWs(s) ==
    IF s # <<>> /\ IsSpace(s[Len(s)]) THEN RStripWs(SubSeq(s, 1, Len(s) - 1)) ELSE s

StripWs(s) == RStripWs(LStripWs(s))

\* ContentExtractor.extract: fetched is the outcome of requests.get + the
\* html-to-text conversion of the page at url
ContentExtractor_extract(url, fetched) ==
    IF ~fetched.ok THEN NonePage
    ELSE LET text == IF Len(fetched.val) > SettingsMaxContentLength
                     THEN Slice(fetched.val, SettingsMaxContentLength) \o <<".", ".", ".">>
                     ELSE fetched.val
         IN  [url |-> url, content |-> StripWs(text)]

\* batch_extract that gives up at the first url that yields no page
RECURSIVE ContentExtractor_batch_extract_StopsAtFailure(_, _)
ContentExtractor_batch_extract_StopsAtFailure(urls, fetches) ==
    IF urls = <<>> THEN <<>>
    ELSE LET content == ContentExtractor_extract(Head(urls), Head(fetches))
         IN  IF content # NonePage
             THEN <<content>>
                      \o ContentExtractor_batch_extract_StopsAtFailure(Tail(urls),
                                                                       Tail(fetches))
             ELSE <<>>

\* ContentExtractor.batch_extract: fetches[i] is the outcome for urls[i]
RECURSIVE ContentExtractor_batch_extract(_, _)
ContentExtractor_batch_extract(urls, fetches) ==
    IF urls = <<>> THEN <<>>
    ELSE LET content == ContentExtractor_extract(Head(urls), Head(fetches))
             rest == ContentExtractor_batch_extract(Tail(urls), Tail(fetches))
         IN  IF content # NonePage THEN <<content>> \o rest ELSE rest

-----------------------------------------------------------------------------
(* tools.py: RelevanceFilter *)

\* x.get("relevance_score", 0); the key is <<>> while unset, <<score>> once set
ScoreKey(r) == IF Len(r.relevance_score) = 0 THEN 0 ELSE r.relevance_score[1]

\* TermMatches that counts every term of the query once
TermMatches_Distinct(terms, snippet_lower, title_lower) ==
    Cardinality({t \in Range(terms) :
                    Contains(snippet_lower, t) \/ Contains(title_lower, t)})

\* sum(1 for term in query_terms if term in snippet_lower or term in title_lower)
RECURSIVE TermMatches(_, _, _)
TermMatches(terms, snippet_lower, title_lower) ==
    IF terms = <<>> THEN 0
    ELSE (IF Contains(snippet_lower, Head(terms)) \/ Contains(title_lower, Head(terms))
          THEN 1 ELSE 0)
         + TermMatches(Tail(terms), snippet_lower, title_lower)

\* InsertByScore that puts x in front of the results of equal score
RECURSIVE InsertByScore_BeforeEquals(_, _)
InsertByScore_BeforeEquals(sorted, x) ==
    IF sorted = <<>> THEN <<x>>
    ELSE IF ScoreKey(Head(sorted)) > ScoreKey(x)
         THEN <<Head(sorted)>> \o InsertByScore_BeforeEquals(Tail(sorted), x)
         ELSE <<x>> \o sorted

\* SortByScore that only reverses the list
RECURSIVE SortByScore_Reversing(_, _)
SortByScore_Reversing(todo, sorted) ==
    IF todo = <<>> THEN sorted
    ELSE SortByScore_Reversing(Tail(todo), <<Head(todo)>> \o sorted)

\* list.sort(key=ScoreKey, reverse=True): stable, equal keys keep their order
RECURSIVE InsertByScore(_, _)
InsertByScore(sorted, x) ==
    IF sorted = <<>> THEN <<x>>
    ELSE IF ScoreKey(Head(sorted)) >= ScoreKey(x)
         THEN <<Head(sorted)>> \o InsertByScore(Tail(sorted), x)
         ELSE <<x>> \o sorted

RECURSIVE SortByScore(_, _)
SortByScore(todo, sorted) ==
    IF todo = <<>> THEN sorted
    ELSE SortByScore(Tail(todo), InsertByScore(sorted, Head(todo)))

\* a loop of filter_results that also skips the results no query term matches
RECURSIVE FilterLoop_DropsUnmatched(_, _, _, _, _)
FilterLoop_DropsUnmatched(seen, i, terms, min_snippet_length, filtered) ==
    IF i > Len(seen)
    THEN [ok |-> TRUE, val |-> SortByScore(filtered, <<>>), exc |-> <<>>, results |-> seen]
    ELSE LET r == seen[i]
         IN  IF r.snippet = NoneVal
             THEN [ok |-> FALSE, val |-> <<>>, results |-> seen,
                   exc |-> <<"object of type 'NoneType' has no len()">>]
             ELSE IF Len(r.snippet) < min_snippet_length
             THEN FilterLoop_DropsUnmatched(seen, i + 1, terms, min_snippet_length,
                                            filtered)
             ELSE IF r.title = NoneVal
             THEN [ok |-> FALSE, val |-> <<>>, results |-> seen,
                   exc |-> <<"'NoneType' object has no attribute 'lower'">>]
             ELSE LET score == TermMatches(terms, Lower(r.snippet), Lower(r.title))
                      scored == [r EXCEPT !.relevance_score = <<score>>]
                  IN  FilterLoop_DropsUnmatched(
                          [seen EXCEPT ![i] = scored], i + 1, terms, min_snippet_length,
                          IF score = 0 THEN filtered ELSE Append(filtered, scored))

\* the loop of filter_results from position i on.  The score is written into the
\* result dict itself, so the caller's list (seen) changes with it.  len(None)
\* and None.lower() raise.
RECURSIVE FilterLoop(_, _, _, _, _)
FilterLoop(seen, i, terms, min_snippet_length, filtered) ==
    IF i > Len(seen)
    THEN [ok |-> TRUE, val |-> SortByScore(filtered, <<>>), exc |-> <<>>, results |-> seen]
    ELSE LET r == seen[i]
         IN  IF r.snippet = NoneVal
             THEN [ok |-> FALSE, val |-> <<>>, results |-> seen,
                   exc |-> <<"object of type 'NoneType' has no len()">>]
             ELSE IF Len(r.snippet) < min_snippet_length
             THEN FilterLoop(seen, i + 1, terms, min_snippet_length, filtered)
             ELSE IF r.title = NoneVal
             THEN [ok |-> FALSE, val |-> <<>>, results |-> seen,
                   exc |-> <<"'NoneType' object has no attribute 'lower'">>]
             ELSE LET score == TermMatches(terms, Lower(r.snippet), Lower(r.title))
                      scored == [r EXCEPT !.relevance_score = <<score>>]
                  IN  FilterLoop([seen EXCEPT ![i] = scored], i + 1, terms,
                                 min_snippet_length, Append(filtered, scored))

RelevanceFilter_filter_results(results, query, min_snippet_length) ==
    FilterLoop(results, 1, Split(Lower(query)), min_snippet_length, <<>>)

-----------------------------------------------------------------------------
(* state.py *)

Now == <<"<now>">>
Today == <<"<today>">>

create_initial_state(query, job_id, user_id, max_results, include_citations) ==
    [query |-> query,
     job_id |-> job_id,
     user_id |-> user_id,
     max_results |-> max_results,
     include_citations |-> include_citations,
     raw_search_results |-> <<>>,
     filtered_results |-> <<>>,
     extracted_content |-> <<>>,
     synthesized_content |-> <<>>,
     report_title |-> <<>>,
     executive_summary |-> <<>>,
     report_sections |-> <<>>,
     citations |-> <<>>,
     report_markdown |-> <<>>,
     google_doc_url |-> NoneVal,
     n8n_response |-> NoneVal,
     current_step |-> "initialized",
     error_message |-> NoneVal,
     retry_count |-> 0,
     started_at |-> Now,
     completed_at |-> NoneVal,
     progress_messages |-> <<>>]

-----------------------------------------------------------------------------
(* nodes.py.  A node is an operator from the state dict (and the outcomes of *)
(* the calls it makes) to [ok, state, exc]: ok is FALSE when an exception   *)
(* escapes the node, and state is the dict as the node left it.             *)

Returned(s) == [ok |-> TRUE, state |-> s, exc |-> <<>>]

\* a log that keeps the latest message only
Log_Replacing(s, msg) == [s EXCEPT !.progress_messages = <<msg>>]

Log(s, msg) == [s EXCEPT !.progress_messages = Append(@, msg)]

\* an intake that stores the query in lower case
query_intake_node_Normalizing(s) ==
    LET s1 == Log([s EXCEPT !.current_step = "query_intake", !.query = Lower(@)],
                  <<"Processing query: ">> \o FStr(s.query))
    IN  IF ~Truthy(s1.query) \/ Len(s1.query) < MinQueryLength
        THEN Returned([s1 EXCEPT !.error_message = <<"Query too short or empty">>])
        ELSE Returned(s1)

query_intake_node(s) ==
    LET s1 == Log([s EXCEPT !.current_step = "query_intake"],
                  <<"Processing query: ">> \o FStr(s.query))
    IN  IF ~Truthy(s1.query) \/ Len(s1.query) < MinQueryLength
        THEN Returned([s1 EXCEPT !.error_message = <<"Query too short or empty">>])
        ELSE Returned(s1)

\* web_search_node that reports an empty result list as an error
web_search_node_EmptyIsError(s, searched) ==
    LET s1 == Log([s EXCEPT !.current_step = "web_search"], <<"Searching the web...">>)
    IN  IF searched.ok /\ searched.val = <<>>
        THEN Returned([s1 EXCEPT !.error_message = <<"No search results found">>])
        ELSE IF searched.ok
        THEN Returned(Log([s1 EXCEPT !.raw_search_results = searched.val],
                          <<"Found ">> \o IntStr(Len(searched.val))
                              \o <<" search results">>))
        ELSE Returned([s1 EXCEPT !.error_message = <<"Search error: ">> \o searched.exc,
                                 !.raw_search_results = <<>>])

\* searched is what search_tool.search returned or raised
web_search_node(s, searched) ==
    LET s1 == Log([s EXCEPT !.current_step = "web_search"], <<"Searching the web...">>)
    IN  IF searched.ok
        THEN Returned(Log([s1 EXCEPT !.raw_search_results = searched.val],
                          <<"Found ">> \o IntStr(Len(searched.val))
                              \o <<" search results">>))
        ELSE Returned([s1 EXCEPT !.error_message = <<"Search error: ">> \o searched.exc,
                                 !.raw_search_results = <<>>])

\* content_filter_node whose except branch only falls back, without error_message
content_filter_node_SilentFallback(s) ==
    LET s1 == Log([s EXCEPT !.current_step = "content_filter"],
                  <<"Filtering relevant results...">>)
        f == RelevanceFilter_filter_results(s1.raw_search_results, s1.query,
                                            MinSnippetLength)
        s2 == [s1 EXCEPT !.raw_search_results = f.results]
    IN  IF f.ok
        THEN LET kept == Slice(f.val, s2.max_results)
             IN  Returned(Log([s2 EXCEPT !.filtered_results = kept],
                              <<"Filtered to ">> \o IntStr(Len(kept))
                                  \o <<" relevant sources">>))
        ELSE Returned([s2 EXCEPT !.filtered_results = s2.raw_search_results])

\* content_filter_node that keeps the surviving results in the order found
content_filter_node_Unranked(s) ==
    LET s1 == Log([s EXCEPT !.current_step = "content_filter"],
                  <<"Filtering relevant results...">>)
        f == RelevanceFilter_filter_results(s1.raw_search_results, s1.query,
                                            MinSnippetLength)
        s2 == [s1 EXCEPT !.raw_search_results = f.results]
    IN  IF f.ok
        THEN LET kept == Slice(SelectSeq(f.results, LAMBDA r : r \in Range(f.val)),
                               s2.max_results)
             IN  Returned(Log([s2 EXCEPT !.filtered_results = kept],
                              <<"Filtered to ">> \o IntStr(Len(kept))
                                  \o <<" relevant sources">>))
        ELSE Returned([s2 EXCEPT !.error_message = <<"Filter error: ">> \o f.exc,
                                 !.filtered_results = s2.raw_search_results])

content_filter_node(s) ==
    LET s1 == Log([s EXCEPT !.current_step = "content_filter"],
                  <<"Filtering relevant results...">>)
        f == RelevanceFilter_filter_results(s1.raw_search_results, s1.query,
                                            MinSnippetLength)
        \* the filter scores the dicts of raw_search_results in place
        s2 == [s1 EXCEPT !.raw_search_results = f.results]
    IN  IF f.ok
        THEN LET kept == Slice(f.val, s2.max_results)
             IN  Returned(Log([s2 EXCEPT !.filtered_results = kept],
                              <<"Filtered to ">> \o IntStr(Len(kept))
                                  \o <<" relevant sources">>))
        ELSE Returned([s2 EXCEPT !.error_message = <<"Filter error: ">> \o f.exc,
                                 !.filtered_results = s2.raw_search_results])

\* ExtractionUrls without the [:5]
ExtractionUrls_Uncapped(s) ==
    [i \in 1..Len(s.filtered_results) |-> s.filtered_results[i].url]

\* the urls content_extraction_node hands to batch_extract
ExtractionUrls(s) ==
    LET top == Slice(s.filtered_results, ExtractionCap)
    IN  [i \in 1..Len(top) |-> top[i].url]

\* fetches[i] is the outcome of fetching the i-th url.  Nothing in the try block
\* raises (batch_extract returns a list whatever the fetches do, every result
\* dict has the key "url"), so the except branch has no case here.
content_extraction_node(s, fetches) ==
    LET s1 == Log([s EXCEPT !.current_step = "content_extraction"],
                  <<"Extracting content from sources...">>)
        extracted == ContentExtractor_batch_extract(ExtractionUrls(s1), fetches)
    IN  Returned(Log([s1 EXCEPT !.extracted_content = extracted],
                     <<"Extracted content from ">> \o IntStr(Len(extracted))
                         \o <<" sources">>))

\* what synthesizer_node sends to the model as {content}
CombinedContent(s) ==
    LET chunks == [i \in 1..Len(s.extracted_content) |->
                      <<"Source: ">> \o FStr(s.extracted_content[i].url) \o <<"\n">>
                          \o Slice(s.extracted_content[i].content, ChunkCap)]
    IN  Slice(Join(chunks, <<"\n\n---\n\n">>), CombinedCap)

\* what report_generator_node sends to the model as {synthesis}
SummaryFindings(s) == Slice(s.synthesized_content, SynthesisCap)

\* response is the outcome of chain.invoke
synthesizer_node(s, response) ==
    LET s1 == Log([s EXCEPT !.current_step = "synthesizer"], <<"Synthesizing findings...">>)
    IN  IF response.ok
        THEN Returned(Log([s1 EXCEPT !.synthesized_content = response.val],
                          <<"Synthesized research findings">>))
        ELSE Returned([s1 EXCEPT
                 !.error_message = <<"Synthesis error: ">> \o response.exc,
                 !.synthesized_content = <<"Error synthesizing content">>])

\* result.get(key, default) of citation_handler_node: the keys are always there
Citation(r) ==
    [title |-> r.title, url |-> r.url, source |-> r.source,
     accessed_date |-> Today, snippet |-> r.snippet]

\* citation_handler_node that builds no citation when include_citations is off
citation_handler_node_OnlyWhenIncluded(s) ==
    LET s1 == Log([s EXCEPT !.current_step = "citation_handler"],
                  <<"Generating citations...">>)
        citations == IF s1.include_citations
                     THEN [i \in 1..Len(s1.filtered_results) |->
                              Citation(s1.filtered_results[i])]
                     ELSE <<>>
    IN  Returned(Log([s1 EXCEPT !.citations = citations],
                     <<"Generated ">> \o IntStr(Len(citations)) \o <<" citations">>))

\* dict reads and datetime.now() only: the except branch has no case here
citation_handler_node(s) ==
    LET s1 == Log([s EXCEPT !.current_step = "citation_handler"],
                  <<"Generating citations...">>)
        citations == [i \in 1..Len(s1.filtered_results) |-> Citation(s1.filtered_results[i])]
    IN  Returned(Log([s1 EXCEPT !.citations = citations],
                     <<"Generated ">> \o IntStr(Len(citations)) \o <<" citations">>))

\* "\n".join(f"- {r['title']}: {r['url']}" for r in filtered_results[:5])
KeySources(s) ==
    LET top == Slice(s.filtered_results, KeySourcesCap)
    IN  Join([i \in 1..Len(top) |->
                 <<"- ">> \o FStr(top[i].title) \o <<": ">> \o FStr(top[i].url)],
             <<"\n">>)

\* the References lines from the i-th citation on
RECURSIVE ReferenceLines(_, _)
ReferenceLines(citations, i) ==
    IF i > Len(citations) THEN <<>>
    ELSE IntStr(i) \o <<". ">> \o FStr(citations[i].title) \o <<". Retrieved ">>
             \o citations[i].accessed_date \o <<" from ">> \o FStr(citations[i].url)
             \o <<"\n">> \o ReferenceLines(citations, i + 1)

RECURSIVE SectionsMarkdown(_)
SectionsMarkdown(sections) ==
    IF sections = <<>> THEN <<>>
    ELSE <<"## ">> \o Head(sections).heading \o <<"\n\n">> \o Head(sections).content
             \o <<"\n\n">> \o SectionsMarkdown(Tail(sections))

ReferencesHeading == <<"## References\n\n">>

\* ReportMarkdown that lists the citations whatever include_citations says
ReportMarkdown_AlwaysReferences(s) ==
    <<"# ">> \o s.report_title \o <<"\n\n">>
        \o <<"**Research Query:** ">> \o FStr(s.query) \o <<"\n\n">>
        \o <<"**Generated:** ">> \o Now \o <<"\n\n">>
        \o <<"---\n\n">>
        \o SectionsMarkdown(s.report_sections)
        \o (IF s.citations # <<>>
            THEN ReferencesHeading \o ReferenceLines(s.citations, 1)
            ELSE <<>>)

\* the markdown report_generator_node assembles from a state whose title,
\* summary and sections are set
ReportMarkdown(s) ==
    <<"# ">> \o s.report_title \o <<"\n\n">>
        \o <<"**Research Query:** ">> \o FStr(s.query) \o <<"\n\n">>
        \o <<"**Generated:** ">> \o Now \o <<"\n\n">>
        \o <<"---\n\n">>
        \o SectionsMarkdown(s.report_sections)
        \o (IF s.include_citations /\ s.citations # <<>>
            THEN ReferencesHeading \o ReferenceLines(s.citations, 1)
            ELSE <<>>)

\* ReportFailure without the assignment of the error body to report_markdown
ReportFailureWithoutBody(s, exc) ==
    [s EXCEPT !.error_message = <<"Report generation error: ">> \o exc]

\* the except branch of report_generator_node
ReportFailure(s, exc) ==
    [s EXCEPT !.error_message = <<"Report generation error: ">> \o exc,
              !.report_markdown = <<"# Error Generating Report\n\n">> \o exc]

\* report_generator_node that stamps completed_at once the report is built
report_generator_node_Stamping(s, title_response, summary_response) ==
    LET s1 == Log([s EXCEPT !.current_step = "report_generator"],
                  <<"Generating final report...">>)
    IN  IF ~title_response.ok THEN Returned(ReportFailure(s1, title_response.exc))
        ELSE
        LET s2 == [s1 EXCEPT !.report_title = Strip(title_response.val, "\"")]
        IN  IF ~summary_response.ok THEN Returned(ReportFailure(s2, summary_response.exc))
            ELSE
            LET s3 == [s2 EXCEPT !.executive_summary = summary_response.val]
                sections ==
                    <<[heading |-> <<"Executive Summary">>, content |-> s3.executive_summary],
                      [heading |-> <<"Research Findings">>, content |-> s3.synthesized_content],
                      [heading |-> <<"Key Sources">>, content |-> KeySources(s3)]>>
                s4 == [s3 EXCEPT !.report_sections = sections, !.completed_at = Now]
            IN  Returned(Log([s4 EXCEPT !.report_markdown = ReportMarkdown(s4)],
                             <<"Report generated successfully">>))

\* title_response and summary_response are the outcomes of the two chain.invoke
\* calls; the second is made only when the first returned
report_generator_node(s, title_response, summary_response) ==
    LET s1 == Log([s EXCEPT !.current_step = "report_generator"],
                  <<"Generating final report...">>)
    IN  IF ~title_response.ok THEN Returned(ReportFailure(s1, title_response.exc))
        ELSE
        LET s2 == [s1 EXCEPT !.report_title = Strip(title_response.val, "\"")]
        IN  IF ~summary_response.ok THEN Returned(ReportFailure(s2, summary_response.exc))
            ELSE
            LET s3 == [s2 EXCEPT !.executive_summary = summary_response.val]
                sections ==
                    <<[heading |-> <<"Executive Summary">>, content |-> s3.executive_summary],
                      [heading |-> <<"Research Findings">>, content |-> s3.synthesized_content],
                      [heading |-> <<"Key Sources">>, content |-> KeySources(s3)]>>
                s4 == [s3 EXCEPT !.report_sections = sections]
            IN  Returned(Log([s4 EXCEPT !.report_markdown = ReportMarkdown(s4)],
                             <<"Report generated successfully">>))

\* an error handler that writes its report and leaves completed_at alone
error_handler_node_Unstamped(s) ==
    LET s1 == [s EXCEPT !.current_step = "error_handler"]
    IN  Returned([s1 EXCEPT !.report_markdown =
                     <<"# Research Report - Error\n\n">>
                         \o <<"**Error:** ">> \o FStr(s1.error_message)])

error_handler_node(s) ==
    LET s1 == [s EXCEPT !.current_step = "error_handler"]
        error_report ==
            <<"# Research Report - Error\n\n">>
                \o <<"**Query:** ">> \o FStr(s1.query) \o <<"\n\n">>
                \o <<"**Error:** ">> \o FStr(s1.error_message) \o <<"\n\n">>
                \o <<"**Step Failed:** ">> \o <<s1.current_step>> \o <<"\n\n">>
                \o <<"Please try again or contact support if the issue persists.">>
    IN  Returned([s1 EXCEPT !.report_markdown = error_report,
                            !.completed_at = Now])

-----------------------------------------------------------------------------
(* graph.py *)

Nodes == <<"query_intake", "web_search", "content_filter", "content_extraction",
           "synthesizer", "citation_handler", "report_generator">>

IndexOf(node) == CHOOSE i \in 1..Len(Nodes) : Nodes[i] = node

should_continue(s) == IF Truthy(s.error_message) THEN "error_handler" ELSE "continue"

\* LangGraphNext with the "continue" edge of content_filter wired to synthesizer
LangGraphNextSkipsExtraction(node, r) ==
    IF ~r.ok THEN "raised"
    ELSE IF node \in {"report_generator", "error_handler"} THEN "END"
    ELSE IF should_continue(r.state) = "error_handler" THEN "error_handler"
    ELSE IF node = "content_filter" THEN "synthesizer"
    ELSE Nodes[IndexOf(node) + 1]

\* LangGraphNext with a conditional edge after report_generator too
LangGraphNextRoutesReportErrors(node, r) ==
    IF ~r.ok THEN "raised"
    ELSE IF node = "error_handler" THEN "END"
    ELSE IF should_continue(r.state) = "error_handler" THEN "error_handler"
    ELSE IF node = "report_generator" THEN "END"
    ELSE Nodes[IndexOf(node) + 1]

\* the edges build_research_graph adds: a conditional edge after each of the
\* first six nodes, report_generator -> END, error_handler -> END.  An
\* exception that escapes a node escapes invoke.
LangGraphNext(node, r) ==
    IF ~r.ok THEN "raised"
    ELSE IF node \in {"report_generator", "error_handler"} THEN "END"
    ELSE IF should_continue(r.state) = "error_handler" THEN "error_handler"
    ELSE Nodes[IndexOf(node) + 1]

\* the loop of MinimalGraph.invoke: the next node of the list whatever the
\* state holds; error_handler_node only from the except branch, then break
MinimalGraphNext(node, r) ==
    IF node = "error_handler" THEN "END"
    ELSE IF ~r.ok THEN "error_handler"
    ELSE IF IndexOf(node) = Len(Nodes) THEN "END"
    ELSE Nodes[IndexOf(node) + 1]

NextNode(exec, node, r) ==
    IF exec = "langgraph" THEN LangGraphNext(node, r) ELSE MinimalGraphNext(node, r)

\* what invoke returns: the compiled graph returns the final state, the
\* fallback a dict of seven of its keys
InvokeResult(exec, s) ==
    IF exec = "langgraph" THEN s
    ELSE [report_title |-> s.report_title,
          report_markdown |-> s.report_markdown,
          executive_summary |-> s.executive_summary,
          query |-> s.query,
          started_at |-> s.started_at,
          user_id |-> s.user_id,
          citations |-> s.citations]

\* dict.get(key, default)
DictGet(d, key, default) == IF key \in DOMAIN d THEN d[key] ELSE default

-----------------------------------------------------------------------------
(* The collaborators: what the search provider, the page fetches and the    *)
(* language model can answer.                                               *)

UrlA == <<"https:", "/", "/", "a.com", "/", "x">>
UrlB == <<"https:", "/", "/", "b.org", "/", "y">>
UrlC == <<"https:", "/", "/", "c.net", "/", "z">>

RawGood == [title |-> <<"A", "I">>, href |-> UrlA,
            body |-> <<"a", "i", " ", "N", "e", "w", "s", " ">> \o Pad(MinSnippetLength)]
RawZero == [title |-> <<>>, href |-> UrlB, body |-> Pad(MinSnippetLength)]
RawShort == [title |-> <<"a", "i">>, href |-> UrlC, body |-> <<"a", "i">>]
RawNoneBody == [title |-> <<"n", "e", "w", "s">>, href |-> UrlC, body |-> NoneVal]
RawNoHost == [title |-> <<"a", "i">>, href |-> <<"a", "b", "c">>,
              body |-> Pad(MinSnippetLength)]
RawNoHref == [title |-> Absent, href |-> Absent, body |-> <<"a", "i">> \o Pad(MinSnippetLength)]

RawPool == {RawGood, RawZero, RawShort, RawNoneBody, RawNoHost, RawNoHref}
JobRawPool == {RawGood, RawNoneBody}

\* the sequences of at most n distinct elements of S
RECURSIVE Arrangements(_, _)
Arrangements(S, n) ==
    IF n = 0 THEN {<<>>}
    ELSE {<<>>} \cup UNION {{<<x>> \o t : t \in Arrangements(S \ {x}, n - 1)} : x \in S}

\* ddgs.text(query, max_results=limit): at most limit results, or an exception
ProviderOutcomes(pool, limit) ==
    {Raise(<<"ratelimit">>)}
        \cup {Ok(rs) : rs \in Arrangements(pool, Min(limit, MaxProviderResults))}

PageText(url) == <<" ", "p", "a", "g", "e", " ">> \o url \o <<"\n">>

\* requests.get raises on a url without a scheme, and may raise on any other
FetchOutcomes(url) ==
    IF ~Truthy(url) THEN {Raise(<<"Invalid URL">>)}
    ELSE {Ok(PageText(url)), Raise(<<"timeout">>)}

FetchSeqs(urls) ==
    {f \in [1..Len(urls) -> UNION {FetchOutcomes(urls[i]) : i \in 1..Len(urls)}] :
        \A i \in 1..Len(urls) : f[i] \in FetchOutcomes(urls[i])}

\* the pages of a job's run are all fetched
JobFetchSeqs(urls) ==
    {[i \in 1..Len(urls) |->
         IF Truthy(urls[i]) THEN Ok(PageText(urls[i])) ELSE Raise(<<"Invalid URL">>)]}

LLMDown == Raise(<<"llm unavailable">>)
SynthesisResponses == {Ok(<<"f", "i", "n", "d", "i", "n", "g", "s">>), LLMDown}
TitleResponses == {Ok(<<"\"", "T", "i", "t", "l", "e", "\"">>), Ok(<<"T">>), LLMDown}
JobTitleResponses == {Ok(<<"\"", "T", "i", "t", "l", "e", "\"">>)}
JobSummaryResponses == {Ok(<<"s", "u", "m">>)}
JobSynthesisResponses == {Ok(<<"f", "i", "n", "d", "i", "n", "g", "s">>)}
SummaryResponses == {Ok(<<"s", "u", "m">>), LLMDown}

QShort0 == <<>>
QShort2 == <<"a", "b">>
QShort4 == <<"a", "i", " ", "n">>
QValid5 == <<"Q", "u", "a", "n", "t">>
QValid7 == <<"A", "I", " ", "n", "e", "w", "s">>

Queries == {QShort0, QShort2, QShort4, QValid5, QValid7}
MaxResultsValues == {1, 3}
UserIds == {NoneVal, <<"u", "1">>}

-----------------------------------------------------------------------------
(* The run of research_graph.invoke(state), one node call per step *)

NoState == create_initial_state(<<>>, <<>>, NoneVal, 0, FALSE)
NoResult == [query |-> NoneVal]

Running == pc \in {Nodes[i] : i \in 1..Len(Nodes)} \cup {"error_handler"}

\* node has been called and returned r.  call holds a handler's response until
\* it is sent; what the tasks do is shown between responses.
Advance(node, r, newFaults, calls) ==
    /\ call.op = "none"
    /\ state' = r.state
    /\ executed' = Append(executed, node)
    /\ faults' = faults \cup newFaults
    /\ llm_calls' = llm_calls \o calls
    /\ pc' = NextNode(executor, node, r)
    /\ UNCHANGED <<executor, owner, result, jobs_db, task, call>>

QueryIntake ==
    /\ pc = "query_intake"
    /\ Advance("query_intake", query_intake_node(state), {}, <<>>)

WebSearch(pool) ==
    /\ pc = "web_search"
    /\ \E provider \in ProviderOutcomes(pool, ResultsLimit(state.max_results)) :
          Advance("web_search",
                  web_search_node(state, WebSearchTool_search(state.query,
                                                              state.max_results, provider)),
                  IF provider.ok THEN {} ELSE {"search"}, <<>>)

ContentFilter ==
    /\ pc = "content_filter"
    /\ Advance("content_filter", content_filter_node(state),
               IF RelevanceFilter_filter_results(state.raw_search_results, state.query,
                                                 MinSnippetLength).ok
               THEN {} ELSE {"filter"}, <<>>)

\* all_fetched: every page with a url is fetched, as in the runs of a job
ContentExtraction(all_fetched) ==
    /\ pc = "content_extraction"
    /\ \E fetches \in IF all_fetched THEN JobFetchSeqs(ExtractionUrls(state))
                                    ELSE FetchSeqs(ExtractionUrls(state)) :
          Advance("content_extraction", content_extraction_node(state, fetches),
                  IF \E i \in DOMAIN fetches : ~fetches[i].ok THEN {"fetch"} ELSE {},
                  <<>>)

Synthesizer(responses) ==
    /\ pc = "synthesizer"
    /\ \E response \in responses :
          Advance("synthesizer", synthesizer_node(state, response),
                  IF response.ok THEN {} ELSE {"synthesis"}, <<"synthesis">>)

CitationHandler ==
    /\ pc = "citation_handler"
    /\ Advance("citation_handler", citation_handler_node(state), {}, <<>>)

ReportGenerator(titles, summaries) ==
    /\ pc = "report_generator"
    /\ \E title_response \in titles, summary_response \in summaries :
          Advance("report_generator",
                  report_generator_node(state, title_response, summary_response),
                  IF title_response.ok /\ summary_response.ok THEN {} ELSE {"report"},
                  IF title_response.ok THEN <<"title", "summary">> ELSE <<"title">>)

ErrorHandler ==
    /\ pc = "error_handler"
    /\ Advance("error_handler", error_handler_node(state), {}, <<>>)

\* a caller builds a state with create_initial_state and calls invoke
Invoke ==
    /\ pc = "idle"
    /\ \E query \in Queries, max_results \in MaxResultsValues,
          include_citations \in BOOLEAN, user_id \in UserIds :
          state' = create_initial_state(query, <<"j", "0">>, user_id, max_results,
                                        include_citations)
    /\ pc' = "query_intake"
    /\ owner' = "direct"
    /\ executed' = <<>>
    /\ faults' = {}
    /\ llm_calls' = <<>>
    /\ UNCHANGED <<executor, result, jobs_db, task, call>>

\* invoke returns to the direct caller
Return ==
    /\ pc = "END"
    /\ owner = "direct"
    /\ result' = InvokeResult(executor, state)
    /\ pc' = "returned"
    /\ UNCHANGED <<executor, state, executed, faults, llm_calls, owner, jobs_db, task, call>>

NoCall == [op |-> "none"]

Init ==
    /\ executor \in {"langgraph", "minimal"}
    /\ state = NoState
    /\ pc = "idle"
    /\ executed = <<>>
    /\ faults = {}
    /\ llm_calls = <<>>
    /\ owner = "none"
    /\ result = NoResult
    /\ jobs_db = <<>>
    /\ task = <<>>
    /\ call = NoCall

Next ==
    \/ Invoke
    \/ QueryIntake
    \/ WebSearch(RawPool)
    \/ ContentFilter
    \/ ContentExtraction(FALSE)
    \/ Synthesizer(SynthesisResponses)
    \/ CitationHandler
    \/ ReportGenerator(TitleResponses, SummaryResponses)
    \/ ErrorHandler
    \/ Return

Spec == Init /\ [][Next]_vars

-----------------------------------------------------------------------------
(* routes.py: the job registry and the background task process_research_job. *)
(* invoke is a synchronous call inside the coroutine, so nothing else runs   *)
(* between StartJob and the end of the pipeline; the coroutine yields only   *)
(* at the await of n8n_client.trigger_workflow.                              *)

JobIds == 1..MaxJobs

JobIdStr(j) == <<"j", "o", "b", "-">> \o IntStr(j)

\* dict.update(changes)
DictUpdate(d, changes) == changes @@ d

\* ValidRequest without the upper limit of max_results
ValidRequest_Unbounded(request) ==
    /\ Len(request.query) >= MinQueryLength
    /\ Len(request.query) <= RequestQueryMaxLength
    /\ request.max_results >= RequestMaxResultsMin

\* the validation of ResearchRequest
ValidRequest(request) ==
    /\ Len(request.query) >= MinQueryLength
    /\ Len(request.query) <= RequestQueryMaxLength
    /\ request.max_results >= RequestMaxResultsMin
    /\ request.max_results <= RequestMaxResultsMax

JobRequests ==
    [query : {QShort2, QValid7}, user_id : {NoneVal}, max_results : {1, 21},
     include_citations : {TRUE}]

\* n8n is how the call of trigger_workflow ended ("ok", or "failed" when it
\* returned None or raised), "not_called" when it was not made
NoTask == [pc |-> "none", state |-> NoState, result |-> NoResult, doc_result |-> NoneVal,
           n8n |-> "not_called"]

\* datetime.now() as the n-th submission reads it: a later submission reads a
\* later time
ClockReading(n) == Now \o <<n>>

\* NewJobRecord of a job that is born processing
NewJobRecord_Processing(job_id, request, now) ==
    [job_id |-> job_id,
     status |-> "processing",
     query |-> request.query,
     created_at |-> now,
     completed_at |-> NoneVal,
     google_doc_url |-> NoneVal,
     summary |-> NoneVal,
     error_message |-> NoneVal]

\* the record create_research_job stores for a new job
NewJobRecord(job_id, request, now) ==
    [job_id |-> job_id,
     status |-> "pending",
     query |-> request.query,
     created_at |-> now,
     completed_at |-> NoneVal,
     google_doc_url |-> NoneVal,
     summary |-> NoneVal,
     error_message |-> NoneVal]

\* ResearchResponse(**job): the fields of the response model, other keys dropped
ResearchResponse(job) ==
    [job_id |-> job.job_id,
     status |-> job.status,
     query |-> job.query,
     created_at |-> job.created_at,
     completed_at |-> job.completed_at,
     google_doc_url |-> job.google_doc_url,
     summary |-> job.summary,
     error_message |-> job.error_message]

\* POST /research.  A request that fails validation is answered 422 before the
\* handler runs.  The handler stores the record, queues process_research_job
\* as a background task, which starts once the response is sent, and answers
\* with the record.
CreateResearchJob ==
    /\ pc = "idle"
    /\ call.op = "none"
    /\ \E request \in JobRequests :
          IF ~ValidRequest(request)
          THEN /\ call' = [op |-> "create_research_job", request |-> request,
                           code |-> 422,
                           body |-> [detail |-> <<"validation error">>]]
               /\ UNCHANGED <<jobs_db, task>>
          ELSE /\ Cardinality(DOMAIN jobs_db) < MaxJobs
               /\ LET job_id == Cardinality(DOMAIN jobs_db) + 1
                      initial_state ==
                          create_initial_state(request.query, JobIdStr(job_id),
                                               request.user_id, request.max_results,
                                               request.include_citations)
                  IN  /\ jobs_db' = (job_id :> NewJobRecord(JobIdStr(job_id), request,
                                                           ClockReading(job_id)))
                                        @@ jobs_db
                      /\ task' = (job_id :> [NoTask EXCEPT !.pc = "queued",
                                                           !.state = initial_state]) @@ task
                      /\ call' = [op |-> "create_research_job", request |-> request,
                                  code |-> 202,
                                  body |-> ResearchResponse(jobs_db'[job_id])]
    /\ UNCHANGED <<executor, state, pc, executed, faults, llm_calls, owner, result>>

\* JobFailed that writes the status alone
JobFailed_StatusOnly(job, exc) == DictUpdate(job, [status |-> "failed"])

\* the except branch of process_research_job
JobFailed(job, exc) ==
    DictUpdate(job, [status |-> "failed", completed_at |-> Now, error_message |-> exc])

\* JobCompleted that fails the job when no document url came back
JobCompleted_RequiresDocument(job, res) ==
    IF DictGet(res, "google_doc_url", NoneVal) = NoneVal
    THEN JobFailed(job, <<"no document">>)
    ELSE DictUpdate(job, [status |-> "completed",
                          completed_at |-> Now,
                          google_doc_url |-> DictGet(res, "google_doc_url", NoneVal),
                          summary |-> DictGet(res, "executive_summary", <<>>),
                          report_data |-> res])

\* JobCompleted that stores the result and leaves the status as it is
JobCompleted_StatusUnwritten(job, res) ==
    DictUpdate(job, [completed_at |-> Now,
                     google_doc_url |-> DictGet(res, "google_doc_url", NoneVal),
                     summary |-> DictGet(res, "executive_summary", <<>>),
                     report_data |-> res])

\* jobs_db[job_id].update({...COMPLETED...})
JobCompleted(job, res) ==
    DictUpdate(job, [status |-> "completed",
                     completed_at |-> Now,
                     google_doc_url |-> DictGet(res, "google_doc_url", NoneVal),
                     summary |-> DictGet(res, "executive_summary", <<>>),
                     report_data |-> res])

ImportOutcomes == {Ok(<<>>), Raise(<<"cannot import research_graph">>)}

\* process_research_job up to the call of invoke; importing the graph module
\* can fail, which the outer except turns into a failed job
StartJob(j) ==
    /\ pc = "idle"
    /\ call.op = "none"
    /\ j \in DOMAIN task
    /\ task[j].pc = "queued"
    /\ \E imported \in ImportOutcomes :
          IF imported.ok
          THEN /\ jobs_db' = [jobs_db EXCEPT ![j].status = "processing"]
               /\ task' = [task EXCEPT ![j].pc = "invoking"]
               /\ state' = task[j].state
               /\ pc' = "query_intake"
               /\ owner' = j
               /\ executed' = <<>>
               /\ faults' = {}
               /\ llm_calls' = <<>>
          ELSE /\ jobs_db' = [jobs_db EXCEPT
                     ![j] = JobFailed([@ EXCEPT !.status = "processing"], imported.exc)]
               /\ task' = [task EXCEPT ![j].pc = "done"]
               /\ UNCHANGED <<state, pc, owner, executed, faults, llm_calls>>
    /\ UNCHANGED <<executor, result, call>>

DocUrl == <<"https:", "/", "/", "docs.google.com", "/", "d">>

\* google_docs_service.create_document: a document (here its "url"), None
\* (service not initialised, or an API error), or an exception; "unavailable"
\* is the import of the service failing
DocOutcomes == {Ok(DocUrl), Ok(NoneVal), Raise(<<"docs">>), Raise(<<"unavailable">>)}

\* n8n_client.trigger_workflow: a response, None, or an exception
N8NOutcomes == {Ok(<<"accepted">>), Ok(NoneVal), Raise(<<"n8n">>)}

N8NClients == {"client", "unavailable"}

\* process_research_job from the return of invoke to the await of the
\* notifier, or to the final update when no document was created.  The dict
\* the task passed to invoke is the one the nodes changed: task[j].state is
\* the final state from here on.
AfterInvoke(j) ==
    /\ pc = "END"
    /\ call.op = "none"
    /\ owner = j
    /\ \E doc \in DocOutcomes, n8n_client \in N8NClients :
          LET res == InvokeResult(executor, state)
              doc_result == IF doc.ok THEN doc.val ELSE NoneVal
          IN  IF doc_result # NoneVal
              THEN LET res1 == DictUpdate(res, [google_doc_url |-> doc_result])
                   IN  IF n8n_client = "client"
                       THEN /\ task' = [task EXCEPT ![j].pc = "await_n8n",
                                                    ![j].state = state,
                                                    ![j].result = res1,
                                                    ![j].doc_result = doc_result]
                            /\ UNCHANGED jobs_db
                       ELSE /\ task' = [task EXCEPT ![j].pc = "done",
                                                    ![j].state = state,
                                                    ![j].result = res1,
                                                    ![j].doc_result = doc_result]
                            /\ jobs_db' = [jobs_db EXCEPT ![j] = JobCompleted(@, res1)]
              ELSE /\ task' = [task EXCEPT ![j].pc = "done", ![j].state = state,
                                           ![j].result = res]
                   /\ jobs_db' = [jobs_db EXCEPT ![j] = JobCompleted(@, res)]
    /\ pc' = "idle"
    /\ owner' = "none"
    /\ UNCHANGED <<executor, state, executed, faults, llm_calls, result, call>>

\* Notified with the exception of trigger_workflow reaching the outer except
Notified_Unhandled(job, res, answered) ==
    IF answered.ok
    THEN LET res1 == DictUpdate(res, [n8n_response |-> answered.val])
         IN  [result |-> res1, job |-> JobCompleted(job, res1)]
    ELSE [result |-> res, job |-> JobFailed(job, answered.exc)]

\* process_research_job from the end of the await on: an exception of
\* trigger_workflow reads as None, result["n8n_response"] is set, and the
\* record gets the final update
Notified(job, res, answered) ==
    LET n8n_response == IF answered.ok THEN answered.val ELSE NoneVal
        res1 == DictUpdate(res, [n8n_response |-> n8n_response])
    IN  [result |-> res1, job |-> JobCompleted(job, res1)]

\* the await returns or raises
NotifyDone(j) ==
    /\ pc = "idle"
    /\ call.op = "none"
    /\ j \in DOMAIN task
    /\ task[j].pc = "await_n8n"
    /\ \E answered \in N8NOutcomes :
          LET after == Notified(jobs_db[j], task[j].result, answered)
          IN  /\ task' = [task EXCEPT
                     ![j].pc = "done",
                     ![j].result = after.result,
                     ![j].n8n = IF answered.ok /\ answered.val # NoneVal
                                THEN "ok" ELSE "failed"]
              /\ jobs_db' = [jobs_db EXCEPT ![j] = after.job]
    /\ UNCHANGED <<executor, state, pc, executed, faults, llm_calls, owner, result, call>>

UnknownId == <<"n", "o", "n", "e", "x", "i", "s", "t", "e", "n", "t">>

\* the ids a client asks for
ReadIds == {JobIdStr(j) : j \in JobIds} \cup {UnknownId}

\* Lookup that finds a record for every id
Lookup_Any(job_id) == DOMAIN jobs_db

\* the keys of jobs_db whose record has the id
Lookup(job_id) == {j \in DOMAIN jobs_db : jobs_db[j].job_id = job_id}

NotFound(op, job_id) ==
    [op |-> op, job_id |-> job_id, code |-> 404,
     body |-> [detail |-> <<"Job ">> \o job_id \o <<" not found">>]]

\* JobStatusResponse(...) of get_job_status; progress is the step name as one
\* fragment, or None
JobStatusResponse(job) ==
    LET report_data == DictGet(job, "report_data", <<>>)
    IN  [job_id |-> job.job_id,
         status |-> job.status,
         progress |-> IF report_data # <<>> /\ "current_step" \in DOMAIN report_data
                      THEN <<report_data.current_step>>
                      ELSE NoneVal,
         google_doc_url |-> DictGet(job, "google_doc_url", NoneVal),
         error_message |-> DictGet(job, "error_message", NoneVal)]

\* GET /research/{job_id}.  A handler runs on the event loop, so only while no
\* invoke is running.
GetResearchJob ==
    /\ pc = "idle"
    /\ call.op = "none"
    /\ \E job_id \in ReadIds :
          call' = IF Lookup(job_id) = {} THEN NotFound("get_research_job", job_id)
                  ELSE LET j == CHOOSE j \in Lookup(job_id) : TRUE
                       IN  [op |-> "get_research_job", job_id |-> job_id, code |-> 200,
                            body |-> ResearchResponse(jobs_db[j])]
    /\ UNCHANGED <<executor, state, pc, executed, faults, llm_calls, owner, result, jobs_db, task>>

\* GET /research/{job_id}/status
GetJobStatus ==
    /\ pc = "idle"
    /\ call.op = "none"
    /\ \E job_id \in ReadIds :
          call' = IF Lookup(job_id) = {} THEN NotFound("get_job_status", job_id)
                  ELSE LET j == CHOOSE j \in Lookup(job_id) : TRUE
                       IN  [op |-> "get_job_status", job_id |-> job_id, code |-> 200,
                            body |-> JobStatusResponse(jobs_db[j])]
    /\ UNCHANGED <<executor, state, pc, executed, faults, llm_calls, owner, result, jobs_db, task>>

\* list[a:b] of Python, 0-based, a negative index counting from the end
PySlice(list, a, b) ==
    LET n == Len(list)
        Clamp(i) == IF i < 0 THEN (IF i + n < 0 THEN 0 ELSE i + n) ELSE Min(i, n)
    IN  SubSeq(list, Clamp(a) + 1, Clamp(b))

\* the sort key of list_jobs: x["created_at"]
CreatedKey(x) == x.created_at[Len(x.created_at)]

\* jobs_list.sort(key=CreatedKey, reverse=True): stable
RECURSIVE InsertByCreatedAt(_, _)
InsertByCreatedAt(sorted, x) ==
    IF sorted = <<>> THEN <<x>>
    ELSE IF CreatedKey(Head(sorted)) >= CreatedKey(x)
         THEN <<Head(sorted)>> \o InsertByCreatedAt(Tail(sorted), x)
         ELSE <<x>> \o sorted

RECURSIVE SortByCreatedAt(_, _)
SortByCreatedAt(todo, sorted) ==
    IF todo = <<>> THEN sorted
    ELSE SortByCreatedAt(Tail(todo), InsertByCreatedAt(sorted, Head(todo)))

\* the limit and offset of the requests GET /jobs
ListQueries ==
    {[limit |-> 10, offset |-> 0], [limit |-> 1, offset |-> 0],
     [limit |-> 1, offset |-> 1], [limit |-> -1, offset |-> 0]}

\* the body of the response of list_jobs
JobsPage(limit, offset) ==
    LET jobs_list == [i \in 1..Cardinality(DOMAIN jobs_db) |-> jobs_db[i]]
        total == Len(jobs_list)
        sorted == SortByCreatedAt(jobs_list, <<>>)
    IN  [total |-> total, limit |-> limit, offset |-> offset,
         jobs |-> PySlice(sorted, offset, offset + limit)]

\* GET /jobs
ListJobs ==
    /\ pc = "idle"
    /\ call.op = "none"
    /\ \E q \in ListQueries :
          call' = [op |-> "list_jobs", limit |-> q.limit, offset |-> q.offset,
                   code |-> 200, body |-> JobsPage(q.limit, q.offset)]
    /\ UNCHANGED <<executor, state, pc, executed, faults, llm_calls, owner, result, jobs_db, task>>

ApiOps == {"create_research_job", "get_research_job", "get_job_status", "list_jobs"}

\* the response of the handler is sent
Respond ==
    /\ call.op \in ApiOps
    /\ call' = NoCall
    /\ UNCHANGED <<executor, state, pc, executed, faults, llm_calls, owner, result, jobs_db, task>>

JobNext ==
    \/ CreateResearchJob
    \/ GetResearchJob
    \/ GetJobStatus
    \/ ListJobs
    \/ Respond
    \/ \E j \in JobIds : StartJob(j)
    \/ QueryIntake
    \/ WebSearch(JobRawPool)
    \/ ContentFilter
    \/ ContentExtraction(TRUE)
    \/ Synthesizer(JobSynthesisResponses)
    \/ CitationHandler
    \/ ReportGenerator(JobTitleResponses, JobSummaryResponses)
    \/ ErrorHandler
    \/ \E j \in JobIds : AfterInvoke(j)
    \/ \E j \in JobIds : NotifyDone(j)

JobSpec == Init /\ [][JobNext]_vars

\* the provider finds nothing, or raises
NothingFound == {}

\* a node call of a run in which nothing is found: no step sets error_message
QuietStep ==
    \/ QueryIntake
    \/ WebSearch(NothingFound)
    \/ ContentFilter
    \/ ContentExtraction(TRUE)
    \/ Synthesizer(JobSynthesisResponses)
    \/ CitationHandler
    \/ ReportGenerator(JobTitleResponses, JobSummaryResponses)

\* a step of process_research_job outside invoke
TaskStep == \E j \in JobIds : StartJob(j) \/ AfterInvoke(j) \/ NotifyDone(j)

\* Submissions, status reads and the tasks of the jobs; what a run finds does
\* not change what process_research_job does with the record, so the runs
\* here find nothing.
JobLiveNext ==
    \/ CreateResearchJob
    \/ GetJobStatus
    \/ Respond
    \/ QuietStep
    \/ TaskStep

\* The event loop runs every task that is ready: a response is sent, invoke
\* returns (every external call returns or raises, so the run does not stay
\* inside a node for ever), and a task that is ready each time the loop is
\* free gets its turn.  Requests arrive or not.
JobFairSpec ==
    /\ Init /\ [][JobLiveNext]_vars
    /\ WF_vars(Respond)
    /\ []<>(~Running)
    /\ SF_vars(TaskStep)

-----------------------------------------------------------------------------
(* The tools and content_extraction_node called on their own, one call per *)
(* behaviour: call records the arguments and what came back.               *)

RawTitleOnly == [title |-> <<"N", "e", "w", "s">>, href |-> UrlB,
                 body |-> <<"z">> \o Pad(MinSnippetLength)]

\* what search() returned for a provider result
Normalized(raw) == NormalizeResult(raw).val

\* result dicts as web_search_node stores them
FilterPool ==
    {Normalized(raw) : raw \in {RawGood, RawZero, RawShort, RawNoneBody,
                                RawNoHref, RawTitleOnly}}

QNoTerms == <<" ", " ">>
QRepeated == <<"a", "i", " ", "A", "I">>

FilterQueries == {QShort0, QNoTerms, QRepeated, QValid5, QValid7}

FilterResultsCall ==
    /\ call.op = "none"
    /\ \E results \in Arrangements(FilterPool, MaxFilterLen), query \in FilterQueries :
          call' = [op |-> "filter_results", results |-> results, query |-> query,
                   rerun |-> FALSE,
                   out |-> RelevanceFilter_filter_results(results, query,
                                                          MinSnippetLength)]
    /\ UNCHANGED <<executor, state, pc, executed, faults, llm_calls, owner, result, jobs_db, task>>

\* filter_results called again on the list it returned, with the same query
FilterResultsAgain ==
    /\ call.op = "filter_results"
    /\ ~call.rerun
    /\ call.out.ok
    /\ call' = [op |-> "filter_results", results |-> call.out.val,
                query |-> call.query, rerun |-> TRUE,
                out |-> RelevanceFilter_filter_results(call.out.val, call.query,
                                                       MinSnippetLength)]
    /\ UNCHANGED <<executor, state, pc, executed, faults, llm_calls, owner, result, jobs_db, task>>

SearchMaxResults == {0, 1, 3}

RawNoBody == [title |-> <<"a", "i">>, href |-> UrlB, body |-> Absent]

SearchRawPool == RawPool \cup {RawNoBody}

SearchCall ==
    /\ call.op = "none"
    /\ \E max_results \in SearchMaxResults :
       \E provider \in ProviderOutcomes(SearchRawPool, ResultsLimit(max_results)) :
          call' = [op |-> "search", max_results |-> max_results,
                   provider |-> provider,
                   out |-> WebSearchTool_search(QValid7, max_results, provider)]
    /\ UNCHANGED <<executor, state, pc, executed, faults, llm_calls, owner, result, jobs_db, task>>

BatchUrls == {UrlA, UrlB, UrlC, <<>>}

\* a page may also convert to whitespace only
BatchFetchOutcomes(url) ==
    FetchOutcomes(url) \cup (IF Truthy(url) THEN {Ok(<<" ", "\n">>)} ELSE {})

BatchFetchSeqs(urls) ==
    {f \in [1..Len(urls) -> UNION {BatchFetchOutcomes(urls[i]) : i \in 1..Len(urls)}] :
        \A i \in 1..Len(urls) : f[i] \in BatchFetchOutcomes(urls[i])}

BatchExtractCall ==
    /\ call.op = "none"
    /\ \E urls \in Arrangements(BatchUrls, MaxBatchUrls) :
       \E fetches \in BatchFetchSeqs(urls) :
          call' = [op |-> "batch_extract", urls |-> urls, fetches |-> fetches,
                   out |-> ContentExtractor_batch_extract(urls, fetches)]
    /\ UNCHANGED <<executor, state, pc, executed, faults, llm_calls, owner, result, jobs_db, task>>

\* the i-th of a provider's answers that all pass the filter
LongRaw(i) == [title |-> <<"T">> \o IntStr(i),
               href |-> <<"https:", "/", "/", "h.com", "/">> \o IntStr(i),
               body |-> Pad(MinSnippetLength)]

\* the state content_filter_node leaves when the provider answered n such results
FilteredState(n, max_results) ==
    LET s0 == create_initial_state(QValid7, <<"j", "0">>, NoneVal, max_results, TRUE)
        s1 == query_intake_node(s0).state
        searched == WebSearchTool_search(s1.query, s1.max_results,
                                         Ok([i \in 1..n |-> LongRaw(i)]))
        s2 == web_search_node(s1, searched).state
    IN  content_filter_node(s2).state

ContentExtractionCall ==
    /\ call.op = "none"
    /\ \E max_results \in {3, MaxLongResults} :
       \E n \in 0..max_results :
          LET s == FilteredState(n, max_results)
          IN  \E fetches \in FetchSeqs(ExtractionUrls(s)) :
                 call' = [op |-> "content_extraction",
                          filtered_results |-> s.filtered_results,
                          max_results |-> max_results,
                          urls |-> ExtractionUrls(s),
                          fetches |-> fetches,
                          out |-> content_extraction_node(s, fetches).state]
    /\ UNCHANGED <<executor, state, pc, executed, faults, llm_calls, owner, result, jobs_db, task>>

ToolNext ==
    \/ FilterResultsCall
    \/ FilterResultsAgain
    \/ SearchCall
    \/ BatchExtractCall
    \/ ContentExtractionCall

ToolSpec == Init /\ [][ToolNext]_vars

-----------------------------------------------------------------------------
(* Properties *)

Last(seq) == seq[Len(seq)]

\* invoke has run its last node
Ended == pc \in {"END", "returned"}

StartsWith(text, prefix) ==
    Len(text) >= Len(prefix) /\ SubSeq(text, 1, Len(prefix)) = prefix

\* the node the graph of the spec runs after node, given the state it left
SpecSuccessor(node, s) ==
    IF node = "error_handler" THEN "END"
    ELSE IF Truthy(s.error_message) THEN "error_handler"
    ELSE IF node = "report_generator" THEN "END"
    ELSE Nodes[IndexOf(node) + 1]

\* C1: after each step, error_message set means error_handler runs next and
\* nothing after it; error_message unset means the next step of the sequence
\* (the end of the run after report_generator).
C1_RoutingAfterEveryStep ==
    (executed # <<>> /\ pc # "returned")
        => pc = SpecSuccessor(Last(executed), state)

\* C2: the nodes executed so far are a prefix of the seven-step sequence,
\* optionally followed by error_handler as the last one; a run that has ended
\* ended after report_generator or error_handler, and nothing runs after those.
C2_ExecutedIsPrefix ==
    LET n == Len(executed)
        k == IF n > 0 /\ executed[n] = "error_handler" THEN n - 1 ELSE n
    IN  /\ k <= Len(Nodes)
        /\ \A i \in 1..k : executed[i] = Nodes[i]
        /\ Ended => (n > 0 /\ executed[n] \in {"report_generator", "error_handler"})
        /\ (n > 0 /\ executed[n] \in {"report_generator", "error_handler"}) => ~Running

C2_Witness ==
    /\ pc = "returned"
    /\ executed = <<"query_intake", "web_search", "content_filter", "error_handler">>

\* C3: invoke never raises, and in the final state every failure of a search,
\* fetch or language-model call is in error_message, which report_markdown
\* contains.
C3_FailuresCapturedAndRendered ==
    /\ pc # "raised"
    /\ (pc = "END" /\ faults \cap {"search", "fetch", "synthesis", "report"} # {})
          => /\ Truthy(state.error_message)
             /\ Contains(state.report_markdown, state.error_message)

\* C4: when a run has ended, report_markdown of the final state, and of the
\* value invoke returns, is not empty.
C4_ReportNonEmpty ==
    /\ pc = "END" => state.report_markdown # <<>>
    /\ pc = "returned" => DictGet(result, "report_markdown", <<>>) # <<>>

C4_Witness ==
    /\ pc = "returned"
    /\ "report" \in faults
    /\ Last(executed) = "report_generator"
    /\ result.report_markdown # <<>>

\* C5: once error_message is set no step clears it, and the only node that
\* runs after that is error_handler.
C5_ErrorIsSticky ==
    [][Truthy(state.error_message)
          => /\ Truthy(state'.error_message)
             /\ executed' # executed => Last(executed') = "error_handler"]_vars

\* C6: a run on a query shorter than 5 characters ends in the error state, with
\* error_message set and current_step naming the query-intake step.
C6_ShortQueryEndsAtIntake ==
    (pc = "END" /\ Len(state.query) < MinQueryLength)
        => /\ Last(executed) = "error_handler"
           /\ Truthy(state.error_message)
           /\ state.current_step = "query_intake"

\* C7: the report error_handler writes contains the query, the error message
\* and the name of the step that failed, the one that ran before error_handler.
C7_ErrorReportNamesFailedStep ==
    (Len(executed) >= 2 /\ Last(executed) = "error_handler")
        => /\ Contains(state.report_markdown, FStr(state.query))
           /\ Contains(state.report_markdown, state.error_message)
           /\ Contains(state.report_markdown,
                       <<"**Step Failed:** ", executed[Len(executed) - 1]>>)

\* C8: when the search provider raises, raw_search_results stays empty,
\* error_message is a search message, and error_handler follows web_search:
\* content_filter never runs.
C8_SearchFaultRoutesToErrorHandler ==
    "search" \in faults
        => /\ state.raw_search_results = <<>>
           /\ StartsWith(state.error_message, <<"Search error: ">>)
           /\ "content_filter" \notin Range(executed)
           /\ pc \in {"error_handler", "END", "returned"}

\* C9: a job whose pipeline run ended with error_message set ends failed, with
\* that message in its record; a completed job's run ended without an error.
C9_FailedRunFailsJob ==
    \A j \in DOMAIN task :
        (task[j].pc = "done" /\ Truthy(task[j].state.error_message))
            => /\ jobs_db[j].status = "failed"
               /\ jobs_db[j].error_message = task[j].state.error_message

SortedByScore(results) ==
    \A i, j \in 1..Len(results) : i < j => ScoreKey(results[i]) >= ScoreKey(results[j])

Unscored(r) == [r EXCEPT !.relevance_score = <<>>]

UnscoredAll(results) == [i \in 1..Len(results) |-> Unscored(results[i])]

\* where the result stood in the list
PositionIn(results, r) == CHOOSE i \in 1..Len(results) : Unscored(results[i]) = Unscored(r)

\* C12: the list filter_results returns is no longer than its input, in
\* non-increasing order of relevance score, with results of equal score in
\* their input order; a query without terms scores every result 0 and leaves
\* the surviving results in input order.
C12_FilterShorterSortedStable ==
    (call.op = "filter_results" /\ call.out.ok)
        => LET out == call.out.val
               given == call.results
           IN  /\ Len(out) <= Len(given)
               /\ SortedByScore(out)
               /\ \A i, j \in 1..Len(out) :
                     (i < j /\ ScoreKey(out[i]) = ScoreKey(out[j]))
                         => PositionIn(given, out[i]) < PositionIn(given, out[j])
               /\ Split(Lower(call.query)) = <<>>
                     => /\ \A i \in 1..Len(out) : out[i].relevance_score = <<0>>
                        /\ UnscoredAll(out)
                             = SelectSeq(UnscoredAll(given),
                                         LAMBDA r : Len(r.snippet) >= MinSnippetLength)

C12_Witness ==
    /\ call.op = "filter_results"
    /\ ~call.rerun
    /\ call.out.ok
    /\ Len(call.out.val) = 3
    /\ UnscoredAll(call.out.val) # UnscoredAll(call.results)
    /\ ScoreKey(call.out.val[1]) > ScoreKey(call.out.val[2])
    /\ ScoreKey(call.out.val[2]) = ScoreKey(call.out.val[3])

C14_FilterIdempotent ==
    (call.op = "filter_results" /\ call.rerun)
        => /\ call.out.ok
           /\ call.out.val = call.results

C14_Witness ==
    /\ call.op = "filter_results"
    /\ call.rerun
    /\ Len(call.out.val) = 3
    /\ ScoreKey(call.out.val[1]) > ScoreKey(call.out.val[3])
    /\ call.out.val = call.results

\* C15 as stated: once citation_handler has run, citations has as many entries
\* as filtered_results (at most max_results) when include_citations is true,
\* and none when it is false.
C15_CitationsFollowIncludeFlag ==
    "citation_handler" \in Range(executed)
        => IF state.include_citations
           THEN /\ Len(state.citations) = Len(state.filtered_results)
                /\ Len(state.citations) <= state.max_results
           ELSE state.citations = <<>>

\* C15 as amended: once citation_handler has run, citations has one entry for
\* each of filtered_results, in order (so at most max_results), whether
\* include_citations is true or false.
C15_OneCitationPerFilteredResult ==
    "citation_handler" \in Range(executed)
        => /\ Len(state.citations) = Len(state.filtered_results)
           /\ Len(state.citations) <= state.max_results
           /\ \A i \in 1..Len(state.citations) :
                 /\ state.citations[i].url = state.filtered_results[i].url
                 /\ state.citations[i].title = state.filtered_results[i].title

C15_Witness ==
    /\ pc = "report_generator"
    /\ Last(executed) = "citation_handler"
    /\ ~state.include_citations
    /\ Len(state.filtered_results) = 2
    /\ Len(state.citations) = 2

\* the positions of the text in the markdown where a reference entry has its
\* ". Retrieved " fragment
RetrievedAt(md) ==
    SelectSeq([p \in 1..Len(md) |-> p], LAMBDA p : md[p] = ". Retrieved ")

\* the markdown has, ending at position p, the text
EndsAt(md, p, text) ==
    p >= Len(text) /\ SubSeq(md, p - Len(text) + 1, p) = text

\* C16: after report_generator has built the report, it has a References
\* heading exactly when include_citations is true and citations is not empty;
\* the section then has one entry per citation, numbered from 1 in citation
\* order.
C16_ReferencesSection ==
    (pc = "END" /\ Last(executed) = "report_generator" /\ "report" \notin faults)
        => LET md == state.report_markdown
               cs == state.citations
               at == RetrievedAt(md)
           IN  /\ Contains(md, ReferencesHeading)
                     <=> (state.include_citations /\ cs # <<>>)
               /\ Len(at) = IF state.include_citations THEN Len(cs) ELSE 0
               /\ \A i \in 1..Len(at) :
                     /\ EndsAt(md, at[i] - 1,
                               (IF i = 1 THEN ReferencesHeading ELSE <<"\n">>)
                                   \o IntStr(i) \o <<". ">> \o FStr(cs[i].title))
                     /\ EndsAt(md, at[i] + 3 + Len(FStr(cs[i].url)),
                               Today \o <<" from ">> \o FStr(cs[i].url) \o <<"\n">>)

C16_Witness ==
    /\ pc = "END"
    /\ Last(executed) = "report_generator"
    /\ "report" \notin faults
    /\ state.include_citations
    /\ Len(state.citations) = 3
    /\ Contains(state.report_markdown, ReferencesHeading)

\* C17: content_extraction_node hands batch_extract the urls of the first
\* min(5, len(filtered_results)) filtered results, in order, and nothing else,
\* also when max_results is above 5; extracted_content has at most 5 pages.
C17_ExtractionCappedAtFive ==
    call.op = "content_extraction"
        => LET n == Min(ExtractionCap, Len(call.filtered_results))
           IN  /\ call.urls = [i \in 1..n |-> call.filtered_results[i].url]
               /\ Len(call.fetches) = n
               /\ Len(call.out.extracted_content) <= ExtractionCap
               /\ \A i \in 1..Len(call.out.extracted_content) :
                     \E k \in 1..n :
                         call.out.extracted_content[i].url = call.filtered_results[k].url

C17_Witness ==
    /\ call.op = "content_extraction"
    /\ call.max_results > ExtractionCap
    /\ Len(call.filtered_results) > ExtractionCap
    /\ Len(call.urls) = ExtractionCap
    /\ Len(call.out.extracted_content) = ExtractionCap

\* the positions of the urls whose fetch yielded a page
FetchedAt(fetches) == SelectSeq([i \in 1..Len(fetches) |-> i], LAMBDA i : fetches[i].ok)

\* C18: batch_extract over N urls of which M fail returns N - M pages, the
\* pages of the urls that did not fail, in the order of the urls; a failure
\* ends neither the batch nor the call.
C18_BatchExtractSkipsFailures ==
    call.op = "batch_extract"
        => LET at == FetchedAt(call.fetches)
               failed == {i \in 1..Len(call.urls) : ~call.fetches[i].ok}
           IN  /\ Len(call.out) = Len(call.urls) - Cardinality(failed)
               /\ Len(call.out) = Len(at)
               /\ \A k \in 1..Len(at) : call.out[k].url = call.urls[at[k]]

C18_Witness ==
    /\ call.op = "batch_extract"
    /\ Len(call.urls) = 3
    /\ call.fetches[1].ok
    /\ ~call.fetches[2].ok
    /\ call.fetches[3].ok
    /\ Len(call.out) = 2
    /\ call.out[2].content = <<>>

\* C19: search never raises; when the provider raises it returns an empty list.
C19_SearchNeverRaises ==
    call.op = "search"
        => /\ call.out.ok
           /\ ~call.provider.ok => call.out.val = <<>>

C19_Witness ==
    /\ call.op = "search"
    /\ ~call.provider.ok
    /\ call.out.ok
    /\ call.out.val = <<>>

\* the href has a segment after the second '/'
HasHostSegment(href) == Len(SplitOn(href, "/", <<>>, <<>>)) >= 3

\* C20: search returns one result per provider result, the others untouched,
\* with "" for a title, body or href the provider left out and "" as the
\* source of an href that has no host segment.
C20_MalformedFieldsNormalized ==
    (call.op = "search" /\ call.provider.ok)
        => LET raws == call.provider.val
               out == call.out.val
           IN  /\ call.out.ok
               /\ Len(out) = Len(raws)
               /\ \A i \in 1..Len(raws) :
                     /\ raws[i].title = Absent => out[i].title = <<>>
                     /\ raws[i].title # Absent => out[i].title = raws[i].title
                     /\ raws[i].body = Absent => out[i].snippet = <<>>
                     /\ raws[i].body # Absent => out[i].snippet = raws[i].body
                     /\ raws[i].href = Absent => (out[i].url = <<>> /\ out[i].source = <<>>)
                     /\ raws[i].href # Absent => out[i].url = raws[i].href
                     /\ (raws[i].href # Absent /\ ~HasHostSegment(raws[i].href))
                           => out[i].source = <<>>

\* C21: trigger_workflow is called only for a job whose document export
\* returned a document; however the call ends, the job ends completed.
C21_NotifierOnlyAfterDocument ==
    \A j \in DOMAIN task :
        /\ task[j].pc = "await_n8n"
              => (task[j].doc_result # NoneVal /\ jobs_db[j].status = "processing")
        /\ task[j].n8n # "not_called"
              => /\ task[j].doc_result # NoneVal
                 /\ task[j].pc = "done"
                 /\ jobs_db[j].status = "completed"
        /\ (task[j].pc = "done" /\ task[j].doc_result = NoneVal)
              => task[j].n8n = "not_called"

C21_Witness ==
    \E j \in DOMAIN task :
        /\ task[j].n8n = "failed"
        /\ task[j].doc_result = DocUrl
        /\ jobs_db[j].status = "completed"
        /\ jobs_db[j].google_doc_url = DocUrl

\* C22: a job whose document export was unavailable, returned nothing or
\* raised ends completed, with google_doc_url unset and the report of its run
\* in the record.
C22_ExportFailureCompletesJob ==
    \A j \in DOMAIN task :
        (task[j].pc = "done" /\ task[j].result # NoResult /\ task[j].doc_result = NoneVal)
            => /\ jobs_db[j].status = "completed"
               /\ jobs_db[j].google_doc_url = NoneVal
               /\ "report_data" \in DOMAIN jobs_db[j]
               /\ jobs_db[j].report_data.report_markdown = task[j].state.report_markdown
               /\ jobs_db[j].report_data.report_markdown # <<>>

C22_Witness ==
    \E j \in DOMAIN task :
        /\ task[j].pc = "done"
        /\ task[j].result # NoResult
        /\ task[j].doc_result = NoneVal
        /\ jobs_db[j].status = "completed"
        /\ Contains(jobs_db[j].report_data.report_markdown, <<"**Research Query:** ">>)

\* C23: a valid submission adds one record under an id no other record has,
\* with the submitted query and status pending, and answers with it while the
\* job's task is still queued; the task starts after the response is sent.
C23_SubmissionCreatesPendingJob ==
    [][/\ (call'.op = "create_research_job" /\ call' # call /\ call'.code = 202)
            => \E j \in DOMAIN jobs_db' \ DOMAIN jobs_db :
                  /\ DOMAIN jobs_db' = DOMAIN jobs_db \cup {j}
                  /\ \A k \in DOMAIN jobs_db :
                        /\ jobs_db'[k] = jobs_db[k]
                        /\ jobs_db[k].job_id # jobs_db'[j].job_id
                  /\ jobs_db'[j].status = "pending"
                  /\ jobs_db'[j].query = call'.request.query
                  /\ call'.body.job_id = jobs_db'[j].job_id
                  /\ call'.body.status = "pending"
                  /\ call'.body.query = call'.request.query
                  /\ task'[j].pc = "queued"
                  /\ task'[j].state.query = call'.request.query
                  /\ task'[j].state.job_id = jobs_db'[j].job_id
                  /\ pc' = pc
       /\ \A j \in DOMAIN task :
             (task[j].pc = "queued" /\ task'[j].pc # "queued")
                 => (call.op = "none" /\ jobs_db[j].status = "pending")]_vars

C23_Witness ==
    /\ call.op = "create_research_job"
    /\ call.code = 202
    /\ call.body.status = "pending"
    /\ call.body.job_id = JobIdStr(2)
    /\ task[2].pc = "queued"
    /\ task[1].pc = "await_n8n"

\* C24: a submission with a query under 5 characters or max_results above 20
\* is answered with a validation error; no record is added and no task queued.
C24_InvalidSubmissionRejected ==
    [][(/\ call'.op = "create_research_job"
        /\ call' # call
        /\ \/ Len(call'.request.query) < MinQueryLength
           \/ call'.request.max_results > RequestMaxResultsMax)
          => /\ call'.code = 422
             /\ UNCHANGED <<jobs_db, task, pc, owner, state>>]_vars

C24_Witness ==
    /\ call.op = "create_research_job"
    /\ call.code = 422
    /\ call.request.max_results = 21
    /\ call.request.query = QValid7
    /\ DOMAIN jobs_db = {1}

\* C25: a detail or status request for an id that was never submitted is
\* answered not found, one for a submitted id with that job's record under
\* the same id; neither changes the registry.
C25_ReadsFindOnlySubmittedJobs ==
    [][(call'.op \in {"get_research_job", "get_job_status"} /\ call' # call)
          => /\ UNCHANGED <<jobs_db, task>>
             /\ IF \E j \in DOMAIN task : task[j].state.job_id = call'.job_id
                THEN /\ call'.code = 200
                     /\ call'.body.job_id = call'.job_id
                     /\ \E j \in DOMAIN jobs_db :
                           /\ jobs_db[j].job_id = call'.job_id
                           /\ call'.body.status = jobs_db[j].status
                ELSE call'.code = 404]_vars

C25_Witness ==
    /\ call.op = "get_research_job"
    /\ call.code = 404
    /\ call.job_id = UnknownId
    /\ DOMAIN jobs_db = {1, 2}

\* the job of the registry the status response is about
JobOf(job_id) == CHOOSE j \in DOMAIN task : task[j].state.job_id = job_id

\* C26: the status response carries the job's status and, as progress, the
\* step the job is at: the step its run has got to while it is processing,
\* the last step run once it is completed.
C26_ProgressIsCurrentStep ==
    (call.op = "get_job_status" /\ call.code = 200)
        => LET j == JobOf(call.job_id)
           IN  /\ call.body.status = jobs_db[j].status
               /\ task[j].pc \in {"await_n8n", "done"}
                     /\ jobs_db[j].status \in {"processing", "completed"}
                     => call.body.progress = <<task[j].state.current_step>>

\* a record has the fields of its status, and only those
WholeRecord(job) ==
    /\ job.status \in {"pending", "processing"}
          => /\ job.completed_at = NoneVal
             /\ job.summary = NoneVal
             /\ job.error_message = NoneVal
             /\ job.google_doc_url = NoneVal
             /\ "report_data" \notin DOMAIN job
    /\ job.status = "completed"
          => /\ job.completed_at # NoneVal
             /\ job.summary # NoneVal
             /\ "report_data" \in DOMAIN job
             /\ job.google_doc_url = DictGet(job.report_data, "google_doc_url", NoneVal)
    /\ job.status = "failed"
          => /\ job.completed_at # NoneVal
             /\ job.error_message # NoneVal

\* C27: every record of the registry is whole after every step, a read
\* answers with the fields of the record as it is, and a write changes the
\* record of the writing job only, never one that is completed or failed.
C27_RegistryUpdatesAtomic ==
    [][/\ \A j \in DOMAIN jobs_db' : WholeRecord(jobs_db'[j])
       /\ DOMAIN jobs_db \subseteq DOMAIN jobs_db'
       /\ (call'.op \in {"get_research_job", "get_job_status"}
              /\ call' # call /\ call'.code = 200)
             => LET j == JobOf(call'.job_id)
                IN  /\ jobs_db' = jobs_db
                    /\ call'.body.status = jobs_db[j].status
                    /\ call'.body.google_doc_url = jobs_db[j].google_doc_url
                    /\ call'.body.error_message = jobs_db[j].error_message
                    /\ call'.op = "get_research_job"
                          => /\ call'.body.summary = jobs_db[j].summary
                             /\ call'.body.completed_at = jobs_db[j].completed_at
       /\ \A j \in DOMAIN jobs_db :
             jobs_db'[j] # jobs_db[j]
                 => /\ \A k \in DOMAIN jobs_db \ {j} : jobs_db'[k] = jobs_db[k]
                    /\ jobs_db[j].status \in {"pending", "processing"}
                    /\ task'[j].pc # task[j].pc]_vars

C27_Witness ==
    /\ call.op = "get_job_status"
    /\ call.job_id = JobIdStr(1)
    /\ call.code = 200
    /\ call.body.status = "processing"
    /\ task[1].pc = "await_n8n"
    /\ 2 \in DOMAIN jobs_db
    /\ jobs_db[2].status = "completed"

-----------------------------------------------------------------------------
(* The state dict across the steps of a run *)

\* a node has been called and has returned
StepTaken == Len(executed') = Len(executed) + 1

\* C28: a step of the pipeline leaves query, job_id, user_id, max_results and
\* include_citations of the state as they were before it.
C28_InputFieldsUnchanged ==
    [][StepTaken
          => /\ state'.query = state.query
             /\ state'.job_id = state.job_id
             /\ state'.user_id = state.user_id
             /\ state'.max_results = state.max_results
             /\ state'.include_citations = state.include_citations]_vars

C28_Witness ==
    /\ pc = "END"
    /\ executor = "langgraph"
    /\ Len(executed) = Len(Nodes)
    /\ state.query = QValid7
    /\ state.job_id = <<"j", "0">>
    /\ state.user_id = <<"u", "1">>
    /\ state.max_results = 3
    /\ state.include_citations

IsPrefix(s, t) == Len(s) <= Len(t) /\ SubSeq(t, 1, Len(s)) = s

\* C29: the progress log before a step is a prefix of the log after it.
C29_ProgressAppendOnly ==
    [][StepTaken => IsPrefix(state.progress_messages, state'.progress_messages)]_vars

C29_Witness ==
    /\ pc = "END"
    /\ Len(executed) = Len(Nodes)
    /\ Len(state.progress_messages) = 2 * Len(Nodes) - 1
    /\ state.query = QValid7
    /\ state.progress_messages[1] = <<"Processing query: ">> \o FStr(state.query)
    /\ state.progress_messages[2 * Len(Nodes) - 1] = <<"Report generated successfully">>

\* C30: every step that is executed, error_handler and a failing step
\* included, makes the progress log longer.
C30_EveryStepLogs ==
    [][StepTaken => Len(state'.progress_messages) > Len(state.progress_messages)]_vars

\* every step other than error_handler makes the progress log longer
C30_EveryStepButErrorHandlerLogs ==
    [][StepTaken /\ pc # "error_handler"
          => Len(state'.progress_messages) > Len(state.progress_messages)]_vars

-----------------------------------------------------------------------------
(* error_handler *)

\* C31: a call of error_handler returns without raising, ends the run, and
\* leaves completed_at set to a timestamp.
C31_ErrorHandlerAlwaysSucceeds ==
    [][pc = "error_handler" /\ StepTaken
          => /\ error_handler_node(state).ok
             /\ pc' = "END"
             /\ state'.completed_at # NoneVal
             /\ state'.completed_at = Now]_vars

C31_Witness ==
    /\ pc = "END"
    /\ Len(executed) = 4
    /\ executed[4] = "error_handler"
    /\ state.completed_at = Now
    /\ Truthy(state.error_message)

-----------------------------------------------------------------------------
(* graph.py: a whole run of invoke as a function of the initial state and   *)
(* of what the collaborators answer                                         *)

\* what the provider, the page fetches and the three model calls answer in a run
RunOutcomes ==
    [provider : {Raise(<<"ratelimit">>), Ok(<<>>), Ok(<<RawGood>>), Ok(<<RawNoneBody>>)},
     fetched : BOOLEAN,
     synthesis : SynthesisResponses,
     title : TitleResponses,
     summary : SummaryResponses]

\* the call of one node under the outcomes o
NodeCall(node, s, o) ==
    CASE node = "query_intake" -> query_intake_node(s)
      [] node = "web_search" ->
            web_search_node(s, WebSearchTool_search(s.query, s.max_results, o.provider))
      [] node = "content_filter" -> content_filter_node(s)
      [] node = "content_extraction" ->
            content_extraction_node(s,
                [i \in 1..Len(ExtractionUrls(s)) |->
                    IF o.fetched /\ Truthy(ExtractionUrls(s)[i])
                    THEN Ok(PageText(ExtractionUrls(s)[i]))
                    ELSE Raise(<<"timeout">>)])
      [] node = "synthesizer" -> synthesizer_node(s, o.synthesis)
      [] node = "citation_handler" -> citation_handler_node(s)
      [] node = "report_generator" -> report_generator_node(s, o.title, o.summary)
      [] node = "error_handler" -> error_handler_node(s)

RECURSIVE RunFrom(_, _, _, _, _)
RunFrom(exec, node, s, done, o) ==
    IF node \in {"END", "raised"}
    THEN [executed |-> done, result |-> InvokeResult(exec, s)]
    ELSE LET r == NodeCall(node, s, o)
         IN  RunFrom(exec, NextNode(exec, node, r), r.state, Append(done, node), o)

\* exec's invoke(s) under the outcomes o
Run(exec, s, o) == RunFrom(exec, Nodes[1], s, <<>>, o)

\* C32: on the state a caller passes to invoke, and for every combination of
\* outcomes, the fallback executor calls the same nodes in the same order as
\* the langgraph graph and returns the same report_markdown, report_title,
\* executive_summary and citations.
C32_FallbackEquivalentToGraph ==
    (pc = "query_intake" /\ executed = <<>>)
        => \A o \in RunOutcomes :
              LET m == Run("minimal", state, o)
                  l == Run("langgraph", state, o)
              IN  /\ m.executed = l.executed
                  /\ m.result.report_markdown = l.result.report_markdown
                  /\ m.result.report_title = l.result.report_title
                  /\ m.result.executive_summary = l.result.executive_summary
                  /\ m.result.citations = l.result.citations

-----------------------------------------------------------------------------
(* The calls to the language model *)

\* error_message was set by one of the four steps before synthesizer
ErrorSetEarly ==
    /\ Truthy(state.error_message)
    /\ state.current_step \in {Nodes[i] : i \in 1..4}

\* C33: a run in which no step fails ends with exactly the calls synthesis,
\* title, summary made in that order, and once one of the first four steps
\* has set error_message no call to the language model is made.
C33_LanguageModelCalls ==
    [][StepTaken
          => /\ (pc' = "END" /\ ~Truthy(state'.error_message))
                   => llm_calls' = <<"synthesis", "title", "summary">>
             /\ ErrorSetEarly => llm_calls' = <<>>]_vars

-----------------------------------------------------------------------------
(* list_jobs *)

\* the jobs of the registry created after job
NewerThan(job) ==
    {j \in DOMAIN jobs_db : CreatedKey(jobs_db[j]) > CreatedKey(job)}

\* C34: the response of list_jobs carries the number of jobs of the registry
\* as total, and as jobs the records at the positions offset <= p <
\* offset + limit of the registry ordered from the newest to the oldest; the
\* registry is as it was.
C34_ListJobsPage ==
    [][(call'.op = "list_jobs" /\ call.op = "none")
          => LET body == call'.body
                 Positions == {p \in 0..(body.total - 1) :
                                  call'.offset <= p /\ p < call'.offset + call'.limit}
             IN  /\ jobs_db' = jobs_db
                 /\ body.total = Cardinality(DOMAIN jobs_db)
                 /\ Len(body.jobs) = Cardinality(Positions)
                 /\ \A i \in 1..Len(body.jobs) :
                       /\ body.jobs[i] \in Range(jobs_db)
                       /\ Cardinality(NewerThan(body.jobs[i]))
                              = call'.offset + i - 1]_vars

-----------------------------------------------------------------------------
(* What invoke returns *)

\* C35: the record invoke returns for a state that carries a query has a
\* summary field.
C35_ResultHasSummary ==
    (pc = "returned" /\ Truthy(result.query)) => "summary" \in DOMAIN result

-----------------------------------------------------------------------------
(* filter_results: what is kept *)

\* C36: the list filter_results returns holds exactly the given results
\* whose snippet has at least MinSnippetLength characters, each once,
\* whatever their score.
C36_FilterKeepsLongSnippets ==
    (call.op = "filter_results" /\ call.out.ok)
        => LET out == call.out.val
               given == call.results
               kept == {i \in 1..Len(given) : Len(given[i].snippet) >= MinSnippetLength}
           IN  /\ Len(out) = Cardinality(kept)
               /\ {Unscored(out[i]) : i \in 1..Len(out)}
                     = {Unscored(given[i]) : i \in kept}
               /\ \A i \in 1..Len(out) : Len(out[i].snippet) >= MinSnippetLength

C36_Witness ==
    /\ call.op = "filter_results"
    /\ ~call.rerun
    /\ call.out.ok
    /\ call.query = QValid7
    /\ Len(call.results) = 3
    /\ Len(call.out.val) = 2
    /\ \E i \in 1..2 : ScoreKey(call.out.val[i]) = 0
    /\ \E i \in 1..3 : Len(call.results[i].snippet) < MinSnippetLength

-----------------------------------------------------------------------------
(* The status of a job *)

StatusRank(status) ==
    CASE status = "pending" -> 0
      [] status = "processing" -> 1
      [] status \in {"completed", "failed"} -> 2

\* C37: the status of a job never goes back along pending, processing,
\* completed or failed; a completed or failed job keeps its status; and
\* every submitted job is eventually completed or failed.
C37_StatusMovesForward ==
    /\ [][\A j \in DOMAIN jobs_db :
             /\ j \in DOMAIN jobs_db'
             /\ StatusRank(jobs_db'[j].status) >= StatusRank(jobs_db[j].status)
             /\ StatusRank(jobs_db[j].status) = 2
                   => jobs_db'[j].status = jobs_db[j].status]_vars
    /\ \A j \in JobIds :
          (j \in DOMAIN jobs_db)
              ~> (j \in DOMAIN jobs_db /\ StatusRank(jobs_db[j].status) = 2)

C37_Witness ==
    /\ DOMAIN jobs_db = {1, 2}
    /\ jobs_db[1].status = "completed"
    /\ task[1].n8n = "failed"
    /\ jobs_db[2].status = "failed"

-----------------------------------------------------------------------------
(* The end of a run *)

\* C38: when a run has ended, completed_at is set exactly when error_handler
\* was executed; a run that ends in report_generator, with the report or
\* with its failure, ends with completed_at None.
C38_CompletedAtOnlyFromErrorHandler ==
    pc = "END"
        => /\ (state.completed_at # NoneVal) <=> ("error_handler" \in Range(executed))
           /\ Last(executed) = "report_generator" => state.completed_at = NoneVal

C38_Witness ==
    /\ pc = "END"
    /\ executor = "langgraph"
    /\ Last(executed) = "report_generator"
    /\ "report" \notin faults
    /\ Truthy(state.report_markdown)
    /\ state.completed_at = NoneVal

-----------------------------------------------------------------------------
(* Runs that find nothing *)

\* a run of an accepted query has ended in which no node caught an exception
\* and the search, the filter or the extraction came back empty
EndedEmpty ==
    /\ pc = "END"
    /\ Len(state.query) >= MinQueryLength
    /\ faults \subseteq {"search", "fetch"}
    /\ \/ state.raw_search_results = <<>>
       \/ state.filtered_results = <<>>
       \/ state.extracted_content = <<>>

\* C39 as stated: such a run ends with error_message None after all seven
\* steps, with no citation and no References section.
C39_EmptyResultsNotAnError ==
    EndedEmpty
        => /\ state.error_message = NoneVal
           /\ executed = Nodes
           /\ state.citations = <<>>
           /\ ~Contains(state.report_markdown, ReferencesHeading)

\* C39 amended: such a run ends with error_message None after all seven
\* steps; it has one citation per filtered result, so none, and no References
\* section, when no result passed the filter, and a References section when
\* only the extraction came back empty and citations are included.
C39_EmptyResultsNotAnErrorCitingFiltered ==
    EndedEmpty
        => /\ state.error_message = NoneVal
           /\ executed = Nodes
           /\ Len(state.citations) = Len(state.filtered_results)
           /\ Contains(state.report_markdown, ReferencesHeading)
                 <=> (state.include_citations /\ state.filtered_results # <<>>)

C39_Witness ==
    /\ EndedEmpty
    /\ executor = "langgraph"
    /\ "fetch" \in faults
    /\ state.extracted_content = <<>>
    /\ Len(state.filtered_results) = 2
    /\ Len(state.citations) = 2
    /\ Contains(state.report_markdown, ReferencesHeading)

-----------------------------------------------------------------------------
(* A failure of report_generator *)

\* C40: a run of the langgraph graph in which report_generator failed ends
\* after report_generator, error_handler not executed, with error_message
\* set, current_step report_generator and the 'Error Generating Report' body
\* as report_markdown.
C40_ReportFailureEndsRun ==
    (pc = "END" /\ executor = "langgraph" /\ "report" \in faults)
        => /\ Last(executed) = "report_generator"
           /\ "error_handler" \notin Range(executed)
           /\ Truthy(state.error_message)
           /\ state.error_message = <<"Report generation error: ">> \o LLMDown.exc
           /\ state.current_step = "report_generator"
           /\ state.report_markdown = <<"# Error Generating Report\n\n">> \o LLMDown.exc

C40_Witness ==
    /\ pc = "END"
    /\ executor = "langgraph"
    /\ "report" \in faults
    /\ Truthy(state.report_title)
    /\ executed = Nodes
    /\ state.report_markdown = <<"# Error Generating Report\n\n">> \o LLMDown.exc

====
